---- MODULE Spec2Model ----
\* A model of pyaes/blockfeeder.py: the Encrypter / Decrypter feeders, the
\* three mode policies (block, segment, stream) and the ciphertext-stealing
\* final transforms CS1, CS2 and CS3.
EXTENDS Integers, Sequences, FiniteSets, TLC

VARIABLES
    mode,       \* the mode of operation both feeders are built on
    padding,    \* the padding option both feeders are built with
    plain,      \* the plaintext the caller feeds to the Encrypter
    enc,        \* the Encrypter: _buffer and its mode object's chaining state
    encFed,     \* how many plaintext bytes the caller has fed so far
    encOut,     \* every byte the Encrypter has returned so far
    dec,        \* the Decrypter (fresh mode object, same key and IV)
    decFed,     \* how many ciphertext bytes the caller has fed so far
    decOut,     \* every byte the Decrypter has returned so far
    last,       \* the last feed call and how it ended
    pc          \* where a feed call is that runs turn by turn: "idle" between calls

vars == <<mode, padding, plain, enc, encFed, encOut, dec, decFed, decOut, last, pc>>

----------------------------------------------------------------------------
\* Bounds of the model.

\* longest plaintext
MaxLen == 48

\* a feed call passes 0..MaxChunk bytes, or one block and 0..MaxChunk bytes,
\* or (as the first call) the whole input
MaxChunk == 1

----------------------------------------------------------------------------
\* Bytes and Python slicing.

Min(a, b) == IF a < b THEN a ELSE b
Max(a, b) == IF a > b THEN a ELSE b

RECURSIVE XorBits(_, _, _)
XorBits(a, b, n) ==
    IF n = 0 THEN 0
    ELSE (((a % 2) + (b % 2)) % 2) + (2 * XorBits(a \div 2, b \div 2, n - 1))

\* the function f on 1..n as a sequence
AsSeq(f, n) == SubSeq(f, 1, n)

\* the exclusive or of every two 4-bit values, computed once
XorTable ==
    AsSeq([a \in 1..16 |->
             AsSeq([b \in 1..16 |-> XorBits(a - 1, b - 1, 4)], 16)], 16)

\* p ^ l on two byte values: the high and the low four bits
Xor(a, b) ==
    (16 * XorTable[(a \div 16) + 1][(b \div 16) + 1])
        + XorTable[(a % 16) + 1][(b % 16) + 1]

\* [ (p ^ l) for (p, l) in zip(a, b) ]: zip stops at the shorter sequence
XorZip(a, b) ==
    CHOOSE r \in {AsSeq([i \in 1..Min(Len(x), Len(y)) |-> Xor(x[i], y[i])],
                        Min(Len(x), Len(y))) : x \in {a}, y \in {b}} : TRUE

\* a Python index or slice bound i on a sequence of length n, clamped
PyIdx(i, n) == IF i < 0 THEN Max(i + n, 0) ELSE Min(i, n)

\* the elements of s after the first lo, up to element hi
Cut(s, lo, hi) == IF hi <= lo THEN <<>> ELSE SubSeq(s, lo + 1, hi)

\* s[a:b]
PySlice(s, a, b) == Cut(s, PyIdx(a, Len(s)), PyIdx(b, Len(s)))

\* s[a:]
PyFrom(s, a) == PySlice(s, a, Len(s))

\* s[:b]
PyTo(s, b) == PySlice(s, 0, b)

\* chr(c) * n
Repeat(c, n) == AsSeq([i \in 1..Max(n, 0) |-> c], Max(n, 0))

\* the value None of self._buffer: no byte sequence equals it
None == <<-1>>

PADDING_NONE    == "none"
PADDING_DEFAULT == "default"
PADDING_CS1     == "CS1"
PADDING_CS2     == "CS2"
PADDING_CS3     == "CS3"

\* a padding value outside the enumeration
PADDING_BOGUS   == "bogus"

Paddings == {PADDING_NONE, PADDING_DEFAULT, PADDING_CS1, PADDING_CS2,
             PADDING_CS3, PADDING_BOGUS}

----------------------------------------------------------------------------
\* The mode objects (aes.py) and the padding utility (util.py): external
\* collaborators of the feeder.

\* the raw block cipher: a keyed bijection on 16-byte blocks
RoundKey == AsSeq([i \in 1..16 |-> (29 * i + 7) % 256], 16)
Perm == AsSeq([i \in 1..16 |-> ((5 * (i - 1) + 3) % 16) + 1], 16)
PermInv == AsSeq([j \in 1..16 |-> ((13 * ((j - 1) + 13)) % 16) + 1], 16)

\* the inverse of the mixing step of AesEncrypt: out[1] = s[1] and
\* out[i] = s[i] - out[i - 1], modulo 256
RECURSIVE Unmix(_, _, _)
Unmix(s, i, out) ==
    IF i > Len(s) THEN out
    ELSE Unmix(s, i + 1,
               Append(out, (s[i] + 256 - (IF i = 1 THEN 0 ELSE out[i - 1])) % 256))

\* every byte is mixed with the byte before it, moved and shifted by the key
AesEncrypt(b) ==
    CHOOSE r \in {AsSeq([i \in 1..16 |->
                           (v[Perm[i]] + (IF Perm[i] = 1 THEN 0 ELSE v[Perm[i] - 1])
                              + RoundKey[i]) % 256], 16) : v \in {b}} : TRUE

AesDecrypt(c) ==
    Unmix(AsSeq([j \in 1..16 |->
                   (c[PermInv[j]] + 256 - RoundKey[PermInv[j]]) % 256], 16),
          1, <<>>)

\* the initial chaining value given to the mode's constructor
IV == AsSeq([i \in 1..16 |-> (11 * i + 3) % 256], 16)

\* what a call returns: its bytes and the chaining state it leaves; or the
\* exception it raises, with the chaining state at that moment
Ok(out, st) == [err |-> "", out |-> out, st |-> st]
Raise(e, st) == [err |-> e, out |-> <<>>, st |-> st]

\* r if the call raised, otherwise what follows it
Bind(r, F(_)) == IF r.err # "" THEN r ELSE F(r)

\* the call r1 and then, on the chaining state it left, the call F: the two
\* outputs joined
AndThen(r1, F(_)) ==
    Bind(r1, LAMBDA a : Bind(F(a.st), LAMBDA b : Ok(a.out \o b.out, b.st)))

\* the chaining state of a fresh mode object
ModeInit(m) ==
    IF m.kind = "ECB" THEN [reg |-> <<>>, rem |-> <<>>]
    ELSE [reg |-> IV, rem |-> <<>>]

\* CFB, one segment: the output segment and the shift register after it
CfbShift(reg, segIn, segOut, decrypting) ==
    [out |-> segOut,
     reg |-> PyFrom(reg, Len(segIn)) \o (IF decrypting THEN segIn ELSE segOut)]

CfbSegment(reg, segIn, decrypting) ==
    CHOOSE r \in {CfbShift(reg, segIn, v, decrypting) :
                    v \in {XorZip(segIn, PyTo(AesEncrypt(reg), Len(segIn)))}} : TRUE

\* CFB: one segment at a time through the shift register
RECURSIVE CfbRun(_, _, _, _, _)
CfbNext(seg, s, rest, out, decrypting) ==
    CHOOSE r \in {CfbRun(seg, v.reg, w, out \o v.out, decrypting) :
                    v \in {s}, w \in {rest}} : TRUE

CfbRun(seg, reg, data, out, decrypting) ==
    IF data = <<>> THEN Ok(out, [reg |-> reg, rem |-> <<>>])
    ELSE CfbNext(seg, CfbSegment(reg, PyTo(data, seg), decrypting),
                 PyFrom(data, seg), out, decrypting)

\* OFB, one byte: a fresh keystream block when the last one is used up
OfbRefill(st) ==
    IF st.rem = <<>> THEN [reg |-> <<>>, rem |-> AesEncrypt(st.reg)] ELSE st

OfbByte(st, p) ==
    [out |-> Xor(p, Head(st.rem)),
     st |-> [reg |-> Append(st.reg, Head(st.rem)), rem |-> Tail(st.rem)]]

\* OFB: one byte at a time against the keystream
RECURSIVE OfbRun(_, _, _)
OfbNext(b, rest, out) ==
    CHOOSE r \in {OfbRun(v.st, w, Append(out, v.out)) : v \in {b}, w \in {rest}} : TRUE

OfbRun(st, data, out) ==
    IF data = <<>> THEN Ok(out, st)
    ELSE OfbNext(OfbByte(OfbRefill(st), Head(data)), Tail(data), out)

\* CBC: the block c it returns is the next chaining value
CbcChain(c) == Ok(c, [reg |-> c, rem |-> <<>>])

\* self.encrypt(data) of the mode object m in chaining state st
ModeEncrypt(m, st, data) ==
    CASE m.kind = "ECB" ->
            IF Len(data) # 16 THEN Raise("ValueError", st)
            ELSE Ok(AesEncrypt(data), st)
      [] m.kind = "CBC" ->
            IF Len(data) # 16 THEN Raise("ValueError", st)
            ELSE CbcChain(AesEncrypt(XorZip(data, st.reg)))
      [] m.kind = "CFB" ->
            IF Len(data) % m.seg # 0 THEN Raise("ValueError", st)
            ELSE CfbRun(m.seg, st.reg, data, <<>>, FALSE)
      [] OTHER -> OfbRun(st, data, <<>>)

\* self.decrypt(data) of the mode object m in chaining state st
ModeDecrypt(m, st, data) ==
    CASE m.kind = "ECB" ->
            IF Len(data) # 16 THEN Raise("ValueError", st)
            ELSE Ok(AesDecrypt(data), st)
      [] m.kind = "CBC" ->
            IF Len(data) # 16 THEN Raise("ValueError", st)
            ELSE Ok(XorZip(AesDecrypt(data), st.reg), [reg |-> data, rem |-> <<>>])
      [] m.kind = "CFB" ->
            IF Len(data) % m.seg # 0 THEN Raise("ValueError", st)
            ELSE CfbRun(m.seg, st.reg, data, <<>>, TRUE)
      [] OTHER -> OfbRun(st, data, <<>>)

\* self._aes.decrypt(block): the inverse cipher, no chaining state involved
RawInverseBlock(st, block) ==
    IF Len(block) # 16 THEN Raise("ValueError", st)
    ELSE Ok(AesDecrypt(block), st)

\* util.append_PKCS7_padding
append_PKCS7_padding(data) ==
    data \o Repeat(16 - (Len(data) % 16), 16 - (Len(data) % 16))

\* util.strip_PKCS7_padding: the result, or the exception, on chaining state st
strip_PKCS7_padding(data, st) ==
    IF Len(data) % 16 # 0 \/ data = <<>> THEN Raise("ValueError", st)
    ELSE IF data[Len(data)] > 16 THEN Raise("ValueError", st)
    ELSE Ok(PyTo(data, 0 - data[Len(data)]), st)

----------------------------------------------------------------------------
\* blockfeeder.py: the mode policies.

_block_can_consume(size) == IF size >= 16 THEN 16 ELSE 0

_segment_can_consume(m, size) == m.seg * (size \div m.seg)

_stream_can_consume(size) == size

\* mode._can_consume, as injected into the three mode classes
_can_consume(m, size) ==
    CASE m.kind \in {"ECB", "CBC"} -> _block_can_consume(size)
      [] m.kind = "CFB" -> _segment_can_consume(m, size)
      [] OTHER -> _stream_can_consume(size)

_CS_encrypt_swap_blocks(data) == PyFrom(data, 16) \o PyTo(data, 16)

\* a slip: the decrypt side rotates by 16 as the encrypt side does
_CS_decrypt_swap_blocks_by16(data) == PyFrom(data, 16) \o PyTo(data, 16)

_CS_decrypt_swap_blocks(data) ==
    PyFrom(data, Len(data) - 16) \o PyTo(data, Len(data) - 16)

\* _CS1_encrypt: the final block Pn, given the penultimate cipher block Cn_1
CS1_Pn(m, data, Cn_1) ==
    IF m.kind = "CBC"
    THEN PyFrom(data, 16) \o Repeat(0, 16 - (Len(data) % 16))
    ELSE PyFrom(data, 16) \o PyFrom(Cn_1, Len(data) % 16)

\* a slip: an aligned tail is returned as it is
_CS1_encrypt_plain(m, st, data) ==
    IF Len(data) % 16 # 0
    THEN Bind(ModeEncrypt(m, st, PyTo(data, 16)), LAMBDA r1 :
           Bind(ModeEncrypt(m, r1.st, CS1_Pn(m, data, r1.out)), LAMBDA r2 :
             Ok(PyTo(r1.out, Len(data) % 16) \o r2.out, r2.st)))
    ELSE Ok(data, st)

_CS1_encrypt(m, st, data) ==
    IF Len(data) % 16 # 0
    THEN Bind(ModeEncrypt(m, st, PyTo(data, 16)), LAMBDA r1 :
           Bind(ModeEncrypt(m, r1.st, CS1_Pn(m, data, r1.out)), LAMBDA r2 :
             Ok(PyTo(r1.out, Len(data) % 16) \o r2.out, r2.st)))
    ELSE ModeEncrypt(m, st, data)

\* _CS1_decrypt: the penultimate cipher block Cn_1, given the raw inverse Cn
\* of the final block
CS1_Cn_1(data, Cn) ==
    PyTo(data, Len(data) % 16) \o PyFrom(Cn, Len(data) % 16)

\* _CS1_decrypt: the final, partial plaintext block
CS1_Pn_plain(m, data, Cn) ==
    IF m.kind = "CBC"
    THEN XorZip(PyTo(Cn, Len(data) % 16),
                PyTo(CS1_Cn_1(data, Cn), Len(data) % 16))
    ELSE PyTo(Cn, Len(data) % 16)

_CS1_decrypt(m, st, data) ==
    IF Len(data) % 16 # 0
    THEN Bind(RawInverseBlock(st, PyFrom(data, Len(data) - 16)), LAMBDA r0 :
           Bind(ModeDecrypt(m, st, CS1_Cn_1(data, r0.out)), LAMBDA r1 :
             Ok(r1.out \o CS1_Pn_plain(m, data, r0.out), r1.st)))
    ELSE ModeDecrypt(m, st, PyTo(data, 16))

_CS2_encrypt(m, st, data) ==
    Bind(_CS1_encrypt(m, st, data), LAMBDA c :
      IF Len(data) % 16 # 0 THEN Ok(_CS_encrypt_swap_blocks(c.out), c.st)
      ELSE c)

_CS2_decrypt(m, st, data) ==
    IF Len(data) % 16 = 0 THEN _CS1_decrypt(m, st, data)
    ELSE _CS1_decrypt(m, st, _CS_decrypt_swap_blocks(data))

\* a slip: the trailing units are left in place
_CS3_encrypt_noswap(m, st, data) ==
    IF Len(data) = 32
    THEN AndThen(_CS1_encrypt(m, st, PyTo(data, 16)),
                 LAMBDA s1 : _CS1_encrypt(m, s1, PyFrom(data, 16)))
    ELSE _CS1_encrypt(m, st, data)

_CS3_encrypt(m, st, data) ==
    Bind(IF Len(data) = 32
         THEN AndThen(_CS1_encrypt(m, st, PyTo(data, 16)),
                      LAMBDA s1 : _CS1_encrypt(m, s1, PyFrom(data, 16)))
         ELSE _CS1_encrypt(m, st, data),
         LAMBDA c : Ok(_CS_encrypt_swap_blocks(c.out), c.st))

\* _CS3_decrypt on the tail c, which is the data with its blocks swapped back
CS3_decrypt_swapped(m, st, data, c) ==
    IF Len(data) = 32
    THEN AndThen(_CS1_decrypt(m, st, PyTo(c, 16)),
                 LAMBDA s1 : _CS1_decrypt(m, s1, PyFrom(c, 16)))
    ELSE _CS1_decrypt(m, st, c)

_CS3_decrypt(m, st, data) ==
    CS3_decrypt_swapped(m, st, data, _CS_decrypt_swap_blocks(data))

\* the last lines of _block_final_encrypt: the (padded) data, one or two units
EncryptUnits(m, st, data) ==
    IF Len(data) = 32
    THEN AndThen(ModeEncrypt(m, st, PyTo(data, 16)),
                 LAMBDA s1 : ModeEncrypt(m, s1, PyFrom(data, 16)))
    ELSE ModeEncrypt(m, st, data)

\* a slip: two padded units are passed to encrypt in one call
_block_final_encrypt_nosplit(m, st, data, pad) ==
    CASE pad = PADDING_DEFAULT -> ModeEncrypt(m, st, append_PKCS7_padding(data))
      [] pad = PADDING_NONE ->
            IF Len(data) # 16 THEN Raise("InvalidFinalLength", st)
            ELSE ModeEncrypt(m, st, data)
      [] pad = PADDING_CS1 -> _CS1_encrypt(m, st, data)
      [] pad = PADDING_CS2 -> _CS2_encrypt(m, st, data)
      [] pad = PADDING_CS3 -> _CS3_encrypt(m, st, data)
      [] OTHER -> Raise("InvalidPaddingOption", st)

\* (the test of the class name before each CS call is always true)
_block_final_encrypt(m, st, data, pad) ==
    CASE pad = PADDING_DEFAULT -> EncryptUnits(m, st, append_PKCS7_padding(data))
      [] pad = PADDING_NONE ->
            IF Len(data) # 16 THEN Raise("InvalidFinalLength", st)
            ELSE EncryptUnits(m, st, data)
      [] pad = PADDING_CS1 -> _CS1_encrypt(m, st, data)
      [] pad = PADDING_CS2 -> _CS2_encrypt(m, st, data)
      [] pad = PADDING_CS3 -> _CS3_encrypt(m, st, data)
      [] OTHER -> Raise("InvalidPaddingOption", st)

\* a slip: with padding None the length of the tail is not looked at
_block_final_decrypt_anylen(m, st, data, pad) ==
    CASE pad = PADDING_DEFAULT ->
            Bind(ModeDecrypt(m, st, data),
                 LAMBDA r : strip_PKCS7_padding(r.out, r.st))
      [] pad = PADDING_CS1 -> _CS1_decrypt(m, st, data)
      [] pad = PADDING_CS2 -> _CS2_decrypt(m, st, data)
      [] pad = PADDING_CS3 -> _CS3_decrypt(m, st, data)
      [] pad = PADDING_NONE -> ModeDecrypt(m, st, data)
      [] OTHER -> Raise("InvalidPaddingOption", st)

_block_final_decrypt(m, st, data, pad) ==
    CASE pad = PADDING_DEFAULT ->
            Bind(ModeDecrypt(m, st, data),
                 LAMBDA r : strip_PKCS7_padding(r.out, r.st))
      [] pad = PADDING_CS1 -> _CS1_decrypt(m, st, data)
      [] pad = PADDING_CS2 -> _CS2_decrypt(m, st, data)
      [] pad = PADDING_CS3 -> _CS3_decrypt(m, st, data)
      [] pad = PADDING_NONE ->
            IF Len(data) # 16 THEN Raise("InvalidFinalLength", st)
            ELSE ModeDecrypt(m, st, data)
      [] OTHER -> Raise("InvalidPaddingOption", st)

\* the zero bytes that fill the tail up to the next segment boundary
faux_padding(m, data) == Repeat(0, m.seg - (Len(data) % m.seg))

\* a slip: the result is not cut back to the length of the tail
_segment_final_encrypt_uncut(m, st, data, pad) ==
    IF pad # PADDING_DEFAULT THEN Raise("InvalidPaddingOption", st)
    ELSE ModeEncrypt(m, st, data \o faux_padding(m, data))

_segment_final_encrypt(m, st, data, pad) ==
    IF pad # PADDING_DEFAULT THEN Raise("InvalidPaddingOption", st)
    ELSE Bind(ModeEncrypt(m, st, data \o faux_padding(m, data)),
              LAMBDA r : Ok(PyTo(r.out, Len(data)), r.st))

\* a slip: the padding option is not looked at
_segment_final_decrypt_anypad(m, st, data, pad) ==
    Bind(ModeDecrypt(m, st, data \o faux_padding(m, data)),
         LAMBDA r : Ok(PyTo(r.out, Len(data)), r.st))

_segment_final_decrypt(m, st, data, pad) ==
    IF pad # PADDING_DEFAULT THEN Raise("InvalidPaddingOption", st)
    ELSE Bind(ModeDecrypt(m, st, data \o faux_padding(m, data)),
              LAMBDA r : Ok(PyTo(r.out, Len(data)), r.st))

\* a slip: the padding option is looked at after the mode has encrypted
_stream_final_encrypt_late(m, st, data, pad) ==
    Bind(ModeEncrypt(m, st, data), LAMBDA r :
      IF pad \notin {PADDING_NONE, PADDING_DEFAULT}
      THEN Raise("InvalidPaddingOption", r.st)
      ELSE r)

_stream_final_encrypt(m, st, data, pad) ==
    IF pad \notin {PADDING_NONE, PADDING_DEFAULT}
    THEN Raise("InvalidPaddingOption", st)
    ELSE ModeEncrypt(m, st, data)

_stream_final_decrypt(m, st, data, pad) ==
    IF pad \notin {PADDING_NONE, PADDING_DEFAULT}
    THEN Raise("InvalidPaddingOption", st)
    ELSE ModeDecrypt(m, st, data)

\* mode._final_encrypt, as injected into the three mode classes
_final_encrypt(m, st, data, pad) ==
    CASE m.kind \in {"ECB", "CBC"} -> _block_final_encrypt(m, st, data, pad)
      [] m.kind = "CFB" -> _segment_final_encrypt(m, st, data, pad)
      [] OTHER -> _stream_final_encrypt(m, st, data, pad)

\* mode._final_decrypt, as injected into the three mode classes
_final_decrypt(m, st, data, pad) ==
    CASE m.kind \in {"ECB", "CBC"} -> _block_final_decrypt(m, st, data, pad)
      [] m.kind = "CFB" -> _segment_final_decrypt(m, st, data, pad)
      [] OTHER -> _stream_final_decrypt(m, st, data, pad)

----------------------------------------------------------------------------
\* blockfeeder.py: the feeder.

\* BlockFeeder.__init__ on a fresh mode object
BlockFeeder(m) == [buffer |-> <<>>, st |-> ModeInit(m)]

\* self._feed and self._final, as Encrypter / Decrypter bind them
_feed(m, st, data, decrypting) ==
    IF decrypting THEN ModeDecrypt(m, st, data) ELSE ModeEncrypt(m, st, data)

_final(m, st, data, pad, decrypting) ==
    IF decrypting THEN _final_decrypt(m, st, data, pad)
    ELSE _final_encrypt(m, st, data, pad)

\* a slip: two units are held back for CS2 as they are for CS3
can_consume_holdCS2(m, pad, buffer) ==
    IF Len(buffer) = 32 /\ pad \in {PADDING_CS2, PADDING_CS3} THEN 0
    ELSE _can_consume(m, Len(buffer) - 16)

\* can_consume in the loop of feed
can_consume(m, pad, buffer) ==
    IF Len(buffer) = 32 /\ pad = PADDING_CS3 THEN 0
    ELSE _can_consume(m, Len(buffer) - 16)

\* the while loop of feed: [err, out, buffer, st] when it ends
RECURSIVE FeedLoop(_, _, _, _, _, _)

\* the end of one turn of the loop: r is what self._feed returned or raised
\* on the first n bytes of the buffer
FeedTurn(m, pad, buffer, n, r, result, decrypting) ==
    IF r.err # ""
    THEN [err |-> r.err, out |-> <<>>, buffer |-> buffer, st |-> r.st]
    ELSE FeedLoop(m, pad, PyFrom(buffer, n), r.st, result \o r.out, decrypting)

FeedLoop(m, pad, buffer, st, result, decrypting) ==
    IF ~(Len(buffer) > 16) \/ can_consume(m, pad, buffer) = 0
    THEN [err |-> "", out |-> result, buffer |-> buffer, st |-> st]
    ELSE FeedTurn(m, pad, buffer, can_consume(m, pad, buffer),
                  _feed(m, st, PyTo(buffer, can_consume(m, pad, buffer)),
                        decrypting),
                  result, decrypting)

\* a slip: the end call empties the buffer instead of setting it to None
Finalize_reusable(f, r) ==
    IF r.err # ""
    THEN [err |-> r.err, out |-> <<>>, buffer |-> f.buffer, st |-> r.st]
    ELSE [err |-> "", out |-> r.out, buffer |-> <<>>, st |-> r.st]

\* the end call of feed: r is what self._final returned or raised; when it
\* raised, the assignment self._buffer = None is not reached
Finalize(f, r) ==
    IF r.err # ""
    THEN [err |-> r.err, out |-> <<>>, buffer |-> f.buffer, st |-> r.st]
    ELSE [err |-> "", out |-> r.out, buffer |-> None, st |-> r.st]

\* BlockFeeder.feed(data) on feeder f; data = None is the end call
feed(m, pad, f, data, decrypting) ==
    IF f.buffer = None
    THEN [err |-> "AlreadyFinalized", out |-> <<>>, buffer |-> f.buffer, st |-> f.st]
    ELSE IF data = None
    THEN Finalize(f, _final(m, f.st, f.buffer, pad, decrypting))
    ELSE FeedLoop(m, pad, f.buffer \o data, f.st, <<>>, decrypting)

----------------------------------------------------------------------------
\* The callers: one Encrypter fed the plaintext chunk by chunk, then one
\* Decrypter on a fresh mode object fed the ciphertext the Encrypter returned.

\* segment sizes of the CFB mode objects (segment_size / 8)
SegSizes == {3, 16}

Modes ==
    {[kind |-> "ECB", seg |-> 16], [kind |-> "CBC", seg |-> 16],
     [kind |-> "OFB", seg |-> 1]}
    \cup {[kind |-> "CFB", seg |-> s] : s \in SegSizes}

\* the plaintext of length n
PlainOf(n) == AsSeq([i \in 1..n |-> (65 + 7 * i + i * i) % 256], n)

Plaintexts == {PlainOf(n) : n \in 0..MaxLen}

\* the chunk lengths a caller may pass when it has fed `fed` bytes and `left`
\* bytes of input remain
ChunkLens(fed, left) ==
    {k \in (0..MaxChunk) \cup (16..(16 + MaxChunk)) : k <= left}
    \cup (IF fed = 0 THEN {left} ELSE {})

ArgKind(k) == IF k = 0 THEN "empty" ELSE "bytes"

Call(who, arg, r) == [who |-> who, arg |-> arg, err |-> r.err, out |-> r.out]

Init ==
    /\ mode \in Modes
    /\ padding \in Paddings
    /\ plain \in Plaintexts
    /\ enc = BlockFeeder(mode)
    /\ dec = BlockFeeder(mode)
    /\ encFed = 0
    /\ decFed = 0
    /\ encOut = <<>>
    /\ decOut = <<>>
    /\ last = [who |-> "none", arg |-> "none", err |-> "", out |-> <<>>]
    /\ pc = "idle"

\* a feed call on the Encrypter with k bytes has returned or raised r
EncCall(arg, k, r) ==
    /\ enc' = [buffer |-> r.buffer, st |-> r.st]
    /\ encOut' = encOut \o r.out
    /\ encFed' = IF r.err = "" THEN encFed + k ELSE encFed
    /\ last' = Call("enc", arg, r)
    /\ UNCHANGED <<mode, padding, plain, dec, decFed, decOut, pc>>

\* a feed call on the Decrypter with k bytes has returned or raised r
DecCall(arg, k, r) ==
    /\ dec' = [buffer |-> r.buffer, st |-> r.st]
    /\ decOut' = decOut \o r.out
    /\ decFed' = IF r.err = "" THEN decFed + k ELSE decFed
    /\ last' = Call("dec", arg, r)
    /\ UNCHANGED <<mode, padding, plain, enc, encFed, encOut, pc>>

\* encrypter.feed(chunk) with the next k bytes of the plaintext
EncFeed(k) ==
    EncCall(ArgKind(k), k,
            feed(mode, padding, enc, PySlice(plain, encFed, encFed + k), FALSE))

\* encrypter.feed(): the end call
EncFinal == EncCall("None", 0, feed(mode, padding, enc, None, FALSE))

\* the ciphertext is complete once the Encrypter has finished
CipherReady == enc.buffer = None /\ encFed = Len(plain)

\* decrypter.feed(chunk) with the next k bytes of the ciphertext
DecFeed(k) ==
    /\ CipherReady
    /\ DecCall(ArgKind(k), k,
               feed(mode, padding, dec, PySlice(encOut, decFed, decFed + k), TRUE))

\* decrypter.feed(): the end call, after all the ciphertext
DecFinal ==
    /\ CipherReady
    /\ decFed = Len(encOut)
    /\ DecCall("None", 0, feed(mode, padding, dec, None, TRUE))

Next ==
    \/ \E k \in ChunkLens(encFed, Len(plain) - encFed) : EncFeed(k)
    \/ EncFinal
    \/ \E k \in ChunkLens(decFed, Len(encOut) - decFed) : DecFeed(k)
    \/ DecFinal

Spec == Init /\ [][Next]_vars

----------------------------------------------------------------------------
\* blockfeeder.py: the stream pump, and the vocabulary of the properties below.

\* _feed_stream: feed block_size bytes at a time, then the end call;
\* [err, out, st] with out everything written to out_stream and st the
\* chaining state the mode object is left in
RECURSIVE FeedStreamLoop(_, _, _, _, _, _, _)

\* feeder.feed(chunk), or feeder.feed() after the last chunk, has returned or
\* raised r
Pump(m, pad, chunk, r, rest, block_size, written, decrypting) ==
    IF r.err # "" THEN [err |-> r.err, out |-> written, st |-> r.st]
    ELSE IF chunk = <<>> THEN [err |-> "", out |-> written \o r.out, st |-> r.st]
    ELSE FeedStreamLoop(m, pad, [buffer |-> r.buffer, st |-> r.st], rest,
                        block_size, written \o r.out, decrypting)

FeedStreamLoop(m, pad, f, input, block_size, written, decrypting) ==
    Pump(m, pad, PyTo(input, block_size),
         feed(m, pad, f,
              IF PyTo(input, block_size) = <<>> THEN None
              ELSE PyTo(input, block_size), decrypting),
         PyFrom(input, block_size), block_size, written, decrypting)

_feed_stream(m, pad, input, block_size, decrypting) ==
    FeedStreamLoop(m, pad, BlockFeeder(m), input, block_size, <<>>, decrypting)

\* encrypt_stream with the default block size, which no input of the model exceeds
encrypt_stream(m, input, pad) == _feed_stream(m, pad, input, MaxLen + 1, FALSE)

BlockMode == mode.kind \in {"ECB", "CBC"}

Stealing == padding \in {PADDING_CS1, PADDING_CS2, PADDING_CS3}

\* the bytes the caller has passed to the Encrypter so far
Fed == PyTo(plain, encFed)

\* the last call was the end call of the Encrypter / of the Decrypter
EncEnded == last.who = "enc" /\ last.arg = "None"
DecEnded == last.who = "dec" /\ last.arg = "None"

\* the feeder has finished: its end call returned a result
EncDone == enc.buffer = None
DecDone == dec.buffer = None

\* s with its trailing two 16-byte units exchanged
SwapTrailingUnits(s) ==
    PyTo(s, Len(s) - 32) \o PyFrom(s, Len(s) - 16)
        \o PySlice(s, Len(s) - 32, Len(s) - 16)

----------------------------------------------------------------------------
\* C1: for ECB and CBC, each padding of Default, CS1, CS2, CS3 and every
\* plaintext of 1 byte or more, the end call of the Encrypter succeeds, and
\* once the Decrypter has been fed the ciphertext and ended it has returned
\* exactly the plaintext.
C1_RoundTripEveryLength ==
    (BlockMode /\ padding \in {PADDING_DEFAULT, PADDING_CS1, PADDING_CS2, PADDING_CS3}
        /\ Len(Fed) >= 1)
    => /\ EncEnded => EncDone
       /\ DecEnded => DecDone
       /\ DecDone => decOut = plain

\* C2: for ECB and CBC, padding CS1, CS2 or CS3 and a plaintext of 16 bytes or
\* more, however both feeders are fed: the end calls succeed and the Decrypter
\* has returned exactly the plaintext.
C2_RoundTripStealing ==
    (BlockMode /\ Stealing /\ Len(Fed) >= 16)
    => /\ EncEnded => EncDone
       /\ DecEnded => DecDone
       /\ DecDone => decOut = plain

C2_Witness ==
    /\ mode.kind = "CBC" /\ padding = PADDING_CS1 /\ Len(plain) = 20
    /\ DecEnded /\ DecDone /\ decOut = plain /\ Len(encOut) = 20

\* C3: for ECB and CBC with CS1, CS2 or CS3 and every plaintext of 1 byte or
\* more (also under 16 bytes), the end call of the Encrypter succeeds and the
\* ciphertext is as long as the plaintext.
C3_NoExpansionEveryLength ==
    (BlockMode /\ Stealing /\ Len(Fed) >= 1)
    => /\ EncEnded => EncDone
       /\ EncDone => Len(encOut) = Len(Fed)

\* C4: once the end call of a feeder has returned a result the feeder has
\* finished, and from then on every feed call on it (bytes, empty or the end
\* call again) fails with AlreadyFinalized, returns nothing and leaves the
\* feeder, its mode object's chaining state and its output as they were.
C4_FinalizeOnce ==
    /\ [](EncEnded /\ last.err = "" => EncDone)
    /\ [](DecEnded /\ last.err = "" => DecDone)
    /\ [][EncDone /\ last'.who = "enc"
            => /\ last'.err = "AlreadyFinalized" /\ last'.out = <<>>
               /\ enc' = enc /\ encOut' = encOut]_vars
    /\ [][DecDone /\ last'.who = "dec"
            => /\ last'.err = "AlreadyFinalized" /\ last'.out = <<>>
               /\ dec' = dec /\ decOut' = decOut]_vars
    /\ [][(EncDone => EncDone') /\ (DecDone => DecDone')]_vars

C4_Witness ==
    /\ EncDone /\ last.who = "enc" /\ last.arg = "bytes"
    /\ last.err = "AlreadyFinalized" /\ Len(encOut) = 20

\* C5: an end call on an active feeder that fails leaves the feeder finished
\* all the same.
C5_FailedEndCallFinishes ==
    /\ EncEnded /\ last.err # "" => EncDone
    /\ DecEnded /\ last.err # "" => DecDone

\* C6: a feed call with an empty byte string finishes the feeder, as the end
\* call does.
C6_EmptyFeedFinishes ==
    /\ last.who = "enc" /\ last.arg = "empty" => EncDone
    /\ last.who = "dec" /\ last.arg = "empty" => DecDone

\* C7: for ECB and CBC with padding Default and every plaintext length L >= 0,
\* however the plaintext is fed, the end call succeeds and the ciphertext has
\* 16 * (L div 16 + 1) bytes.
C7_DefaultLength ==
    (BlockMode /\ padding = PADDING_DEFAULT)
    => /\ EncEnded => EncDone
       /\ EncDone => Len(encOut) = 16 * ((Len(Fed) \div 16) + 1)

C7_Witness ==
    /\ mode.kind = "CBC" /\ padding = PADDING_DEFAULT
    /\ EncEnded /\ EncDone /\ Len(Fed) = 20 /\ Len(encOut) = 32

\* C8: for a segment mode with padding Default and for a stream mode with
\* padding None or Default, every plaintext length and however the feeders are
\* fed: the end calls succeed, the Encrypter returns as many bytes as it was
\* fed, and the Decrypter returns the plaintext.
C8_Truncation ==
    (\/ mode.kind = "CFB" /\ padding = PADDING_DEFAULT
     \/ mode.kind = "OFB" /\ padding \in {PADDING_NONE, PADDING_DEFAULT})
    => /\ EncEnded => EncDone
       /\ EncDone => Len(encOut) = Len(Fed)
       /\ DecEnded => DecDone
       /\ DecDone => decOut = plain

C8_Witness ==
    /\ mode = [kind |-> "CFB", seg |-> 3] /\ padding = PADDING_DEFAULT
    /\ Len(plain) = 20 /\ Len(encOut) = 20
    /\ DecEnded /\ DecDone /\ decOut = plain

\* the plaintext fed is a whole number of 16-byte units, two at least
Aligned == Len(Fed) % 16 = 0 /\ Len(Fed) >= 32

\* C9: for ECB and CBC and a plaintext of a multiple of 16 bytes, 32 at least,
\* however it is fed: the CS3 ciphertext is the CS1 ciphertext of the same
\* plaintext with its trailing two 16-byte units exchanged; for ECB and 32
\* bytes it is E(unit 2) followed by E(unit 1).
C9_CS3Aligned ==
    (BlockMode /\ padding = PADDING_CS3 /\ Aligned)
    => /\ EncEnded => EncDone
       /\ EncDone =>
            /\ encOut = SwapTrailingUnits(encrypt_stream(mode, Fed, PADDING_CS1).out)
            /\ (mode.kind = "ECB" /\ Len(Fed) = 32
                  => encOut = AesEncrypt(PyFrom(Fed, 16)) \o AesEncrypt(PyTo(Fed, 16)))

C9_Witness ==
    /\ mode.kind = "CBC" /\ padding = PADDING_CS3 /\ Aligned
    /\ EncEnded /\ EncDone
    /\ encOut # encrypt_stream(mode, Fed, PADDING_CS1).out

\* C10, as stated: for ECB and CBC and a plaintext of a multiple of 16 bytes,
\* 32 at least, the CS2 ciphertext is the CS1 ciphertext with its trailing two
\* 16-byte units exchanged.
C10_CS2AlignedSwapped ==
    (BlockMode /\ padding = PADDING_CS2 /\ Aligned /\ EncDone)
    => encOut = SwapTrailingUnits(encrypt_stream(mode, Fed, PADDING_CS1).out)

\* C10, amended: for ECB and CBC and a plaintext of a multiple of 16 bytes, 32
\* at least, however it is fed, the CS2 ciphertext is the CS1 ciphertext
\* itself: the trailing units are not exchanged.
C10_CS2AlignedSame ==
    (BlockMode /\ padding = PADDING_CS2 /\ Aligned)
    => /\ EncEnded => EncDone
       /\ EncDone => encOut = encrypt_stream(mode, Fed, PADDING_CS1).out

C10_Witness ==
    /\ mode.kind = "CBC" /\ padding = PADDING_CS2 /\ Aligned
    /\ EncEnded /\ EncDone
    /\ encOut = encrypt_stream(mode, Fed, PADDING_CS1).out
    /\ encOut # SwapTrailingUnits(encOut)

\* the mode object's transform applied to each 16-byte unit of data in order
RECURSIVE TransformUnits(_, _, _, _, _)

TransformNext(m, r, rest, out, decrypting) ==
    IF r.err # "" THEN r
    ELSE TransformUnits(m, r.st, rest, out \o r.out, decrypting)

TransformUnits(m, st, data, out, decrypting) ==
    IF data = <<>> THEN Ok(out, st)
    ELSE TransformNext(m, _feed(m, st, PyTo(data, 16), decrypting),
                       PyFrom(data, 16), out, decrypting)

\* C11: for ECB and CBC and a plaintext of a multiple of 16 bytes, 32 at least,
\* however it is fed: the CS1 ciphertext is the ciphertext padding None gives,
\* which is the mode's encrypt applied to each 16-byte unit in order.
C11_CS1AlignedPlain ==
    (BlockMode /\ padding = PADDING_CS1 /\ Aligned)
    => /\ EncEnded => EncDone
       /\ EncDone =>
            /\ encrypt_stream(mode, Fed, PADDING_NONE).err = ""
            /\ encOut = encrypt_stream(mode, Fed, PADDING_NONE).out
            /\ encOut = TransformUnits(mode, ModeInit(mode), Fed, <<>>, FALSE).out

C11_Witness ==
    /\ mode.kind = "CBC" /\ padding = PADDING_CS1 /\ Aligned
    /\ EncEnded /\ EncDone /\ Len(encOut) = 48
    /\ encOut = encrypt_stream(mode, Fed, PADDING_NONE).out

\* decrypt_stream with the default block size
decrypt_stream(m, input, pad) == _feed_stream(m, pad, input, MaxLen + 1, TRUE)

----------------------------------------------------------------------------
\* A caller that uses one of the two feeders only, on any input: the
\* Encrypter on the bytes of plain, or the Decrypter on the same bytes taken
\* as a ciphertext. End calls may come at any time.

\* the feeder f of the other kind has not been called
Untouched(f, fed, who) == f = BlockFeeder(mode) /\ fed = 0 /\ last.who # who

\* the bytes the caller has passed to the Decrypter so far
RawFed == PyTo(plain, decFed)

SoloEncFeed(k) == Untouched(dec, decFed, "dec") /\ EncFeed(k)

SoloEncFinal == Untouched(dec, decFed, "dec") /\ EncFinal

\* decrypter.feed(chunk) with the next k bytes of the input
RawDecFeed(k) ==
    /\ Untouched(enc, encFed, "enc")
    /\ DecCall(ArgKind(k), k,
               feed(mode, padding, dec, PySlice(plain, decFed, decFed + k), TRUE))

\* decrypter.feed(): the end call
RawDecFinal ==
    /\ Untouched(enc, encFed, "enc")
    /\ DecCall("None", 0, feed(mode, padding, dec, None, TRUE))

NextSolo ==
    \/ \E k \in ChunkLens(encFed, Len(plain) - encFed) : SoloEncFeed(k)
    \/ SoloEncFinal
    \/ \E k \in ChunkLens(decFed, Len(plain) - decFed) : RawDecFeed(k)
    \/ RawDecFinal

SpecSolo == Init /\ [][NextSolo]_vars

\* the padding options the segment and stream policies refuse
Refused == {PADDING_CS1, PADDING_CS2, PADDING_CS3, PADDING_BOGUS}

\* the other of the two padding options a stream policy accepts
OtherStreamPadding == IF padding = PADDING_NONE THEN PADDING_DEFAULT ELSE PADDING_NONE

\* C12: an end call fails with InvalidPaddingOption and returns nothing on a
\* segment mode with CS1, CS2, CS3 or an unknown padding, on a stream mode
\* with the same, and on a block mode with an unknown padding; on a stream
\* mode None and Default both succeed and give the same result.
C12_PaddingLegality ==
    /\ ((EncEnded \/ DecEnded)
          /\ \/ mode.kind \in {"CFB", "OFB"} /\ padding \in Refused
             \/ BlockMode /\ padding = PADDING_BOGUS)
       => last.err = "InvalidPaddingOption" /\ last.out = <<>>
    /\ (mode.kind = "OFB" /\ padding \in {PADDING_NONE, PADDING_DEFAULT})
       => /\ EncEnded => EncDone
          /\ DecEnded => DecDone
          /\ EncDone => encOut = encrypt_stream(mode, Fed, OtherStreamPadding).out
          /\ DecDone => decOut = decrypt_stream(mode, RawFed, OtherStreamPadding).out

C12_Witness ==
    /\ mode.kind = "CFB" /\ padding = PADDING_CS2
    /\ DecEnded /\ last.err = "InvalidPaddingOption" /\ Len(dec.buffer) = 17

----------------------------------------------------------------------------
\* c[-16:] ++ c[:-16]: the last 16 bytes of c first, the bytes before them last
Last16First(c) == PyFrom(c, 0 - 16) \o PyTo(c, 0 - 16)

\* C13: for ECB and CBC with CS2 or CS3 and a tail of 16 + d bytes, 0 < d < 16,
\* the end call of the Encrypter returns the CS1 result c = Cn_1[0:d] ++ Cn
\* with its last 16 bytes first: the whole block Cn, then the d bytes of Cn_1.
C13_SwapLayout ==
    [][(/\ BlockMode /\ padding \in {PADDING_CS2, PADDING_CS3}
        /\ enc.buffer # None /\ Len(enc.buffer) \in 17..31
        /\ last'.who = "enc" /\ last'.arg = "None" /\ last'.err = "")
       => last'.out = Last16First(_CS1_encrypt(mode, enc.st, enc.buffer).out)]_vars

----------------------------------------------------------------------------
\* A caller as above that makes no further call on a feeder once a call has
\* raised an error of the final transform: it feeds its input in chunks and
\* ends, as _feed_stream does with chunks of its own.

CallerGoesOn == last.err \in {"", "AlreadyFinalized"}

NextOnce == CallerGoesOn /\ NextSolo

SpecOnce == Init /\ [][NextOnce]_vars

\* the end call of a feeder ended with err, the feeder has returned the bytes
\* out over all its calls and its mode object is left in the chaining state
\* st: as with the pump p, which fed the same input in one chunk
SameAsOneChunk(p, err, out, st) ==
    /\ err = p.err
    /\ err = "" => out = p.out
    /\ st = p.st

\* C14: whatever the mode, the padding and the input, and however the input is
\* split into chunks (empty and one-byte chunks too), a feeder returns over
\* all its calls what the same input fed in one chunk gives, or its end call
\* fails with the same error, and its mode object is left in the same
\* chaining state.
C14_ChunkingIndependence ==
    /\ (EncEnded /\ last.err # "AlreadyFinalized")
       => SameAsOneChunk(encrypt_stream(mode, Fed, padding),
                         last.err, encOut, enc.st)
    /\ (DecEnded /\ last.err # "AlreadyFinalized")
       => SameAsOneChunk(decrypt_stream(mode, RawFed, padding),
                         last.err, decOut, dec.st)

----------------------------------------------------------------------------
\* the buffer of an active feeder that was fed the bytes fed and has returned
\* the bytes out: the part of fed not yet passed to the mode object, of the
\* length the policy of mode m and padding pad leaves
Lookahead(m, pad, buffer, fed, out) ==
    /\ buffer = PyFrom(fed, Len(fed) - Len(buffer))
    /\ Len(out) = Len(fed) - Len(buffer)
    /\ Len(fed) <= 16 => Len(buffer) = Len(fed)
    /\ Len(fed) > 16 =>
         CASE m.kind \in {"ECB", "CBC"} /\ pad # PADDING_CS3 ->
                 Len(buffer) = 16 + (Len(fed) % 16)
           [] m.kind \in {"ECB", "CBC"} /\ pad = PADDING_CS3 ->
                 Len(buffer) \in 17..32 /\ Len(buffer) % 16 = Len(fed) % 16
           [] m.kind = "CFB" -> 16 <= Len(buffer) /\ Len(buffer) < 16 + m.seg
           [] OTHER -> Len(buffer) = 16

\* C15: while a feeder is active its buffer is the part of the bytes fed that
\* has not been passed to the mode object: everything while 16 bytes or fewer
\* were fed; after that 16 + (T mod 16) bytes on a block mode (17..32 bytes,
\* congruent to T modulo 16, with CS3), 16 up to 16 + segment size - 1 bytes
\* on a segment mode, and 16 bytes on a stream mode.
C15_Lookahead ==
    /\ ~EncDone => Lookahead(mode, padding, enc.buffer, Fed, encOut)
    /\ ~DecDone => Lookahead(mode, padding, dec.buffer, RawFed, decOut)

----------------------------------------------------------------------------
\* the end call of a block-mode feeder with padding None ended with err, after
\* the bytes fed were fed and the bytes out returned over all calls
NoneEnding(err, fed, out, decrypting) ==
    /\ err = "" <=> (Len(fed) > 0 /\ Len(fed) % 16 = 0)
    /\ err # "" => err = "InvalidFinalLength"
    /\ err = "" =>
         /\ Len(out) = Len(fed)
         /\ out = TransformUnits(mode, ModeInit(mode), fed, <<>>, decrypting).out

\* C16: on ECB and CBC with padding None, however the input is fed, the end
\* call of the Encrypter or the Decrypter succeeds exactly when the bytes fed
\* are a positive multiple of 16 and fails with InvalidFinalLength otherwise;
\* when it succeeds the output is as long as the input and is the mode's
\* transform applied to each 16-byte unit in order.
C16_NonePadding ==
    (BlockMode /\ padding = PADDING_NONE /\ last.err # "AlreadyFinalized")
    => /\ EncEnded => NoneEnding(last.err, Fed, encOut, FALSE)
       /\ DecEnded => NoneEnding(last.err, RawFed, decOut, TRUE)

C16_Witness ==
    /\ mode.kind = "CBC" /\ padding = PADDING_NONE
    /\ DecEnded /\ last.err = "" /\ Len(RawFed) = 48 /\ Len(decOut) = 48

----------------------------------------------------------------------------
\* the errors the feeder itself raises
FeederErrors == {"InvalidPaddingOption", "InvalidFinalLength", "AlreadyFinalized"}

\* C17: a feed call that fails with InvalidPaddingOption, InvalidFinalLength
\* or AlreadyFinalized returns no bytes and leaves the chaining state of the
\* mode object and the buffer of the feeder as they were before the call.
C17_ErrorsLeaveState ==
    /\ [][(last'.who = "enc" /\ last'.err \in FeederErrors)
            => last'.out = <<>> /\ encOut' = encOut /\ enc' = enc]_vars
    /\ [][(last'.who = "dec" /\ last'.err \in FeederErrors)
            => last'.out = <<>> /\ decOut' = decOut /\ dec' = dec]_vars

C17_Witness ==
    /\ mode.kind = "CBC" /\ padding = PADDING_NONE
    /\ EncEnded /\ last.err = "InvalidFinalLength"
    /\ Len(enc.buffer) = 17 /\ Len(encOut) = 16

----------------------------------------------------------------------------
\* One feed call of the Encrypter after another, the loop of feed taken turn
\* by turn, on CFB mode objects of every segment size.

LoopModes ==
    {[kind |-> "ECB", seg |-> 16], [kind |-> "CBC", seg |-> 16],
     [kind |-> "OFB", seg |-> 1]}
    \cup {[kind |-> "CFB", seg |-> s] : s \in 1..16}

LoopInit ==
    /\ mode \in LoopModes
    /\ padding \in Paddings
    /\ plain = PlainOf(MaxLen)
    /\ enc = BlockFeeder(mode)
    /\ dec = BlockFeeder(mode)
    /\ encFed = 0
    /\ decFed = 0
    /\ encOut = <<>>
    /\ decOut = <<>>
    /\ last = [who |-> "none", arg |-> "none", err |-> "", out |-> <<>>]
    /\ pc = "idle"

\* feed(chunk) up to the loop: the chunk of k bytes joins the buffer and the
\* result starts empty
LoopEnter(k) ==
    /\ pc = "idle"
    /\ enc.buffer # None
    /\ enc' = [enc EXCEPT !.buffer = enc.buffer \o PySlice(plain, encFed, encFed + k)]
    /\ encFed' = encFed + k
    /\ last' = [who |-> "enc", arg |-> ArgKind(k), err |-> "", out |-> <<>>]
    /\ pc' = "loop"
    /\ UNCHANGED <<mode, padding, plain, encOut, dec, decFed, decOut>>

\* self._feed has returned or raised r on the first n bytes of the buffer
LoopFed(n, r) ==
    /\ enc' = [buffer |-> IF r.err # "" THEN enc.buffer ELSE PyFrom(enc.buffer, n),
               st |-> r.st]
    /\ last' = [last EXCEPT !.err = r.err, !.out = last.out \o r.out]
    /\ pc' = IF r.err # "" THEN "idle" ELSE "loop"
    /\ UNCHANGED <<mode, padding, plain, encFed, encOut, dec, decFed, decOut>>

\* a slip: the bytes passed to self._feed stay in the buffer
LoopTurn_uncut ==
    /\ pc = "loop"
    /\ Len(enc.buffer) > 16
    /\ can_consume(mode, padding, enc.buffer) # 0
    /\ \E r \in {_feed(mode, enc.st,
                       PyTo(enc.buffer, can_consume(mode, padding, enc.buffer)),
                       FALSE)} :
          LoopFed(0, r)

\* one turn of the loop: can_consume bytes go from the buffer to the mode
LoopTurn ==
    /\ pc = "loop"
    /\ Len(enc.buffer) > 16
    /\ can_consume(mode, padding, enc.buffer) # 0
    /\ \E r \in {_feed(mode, enc.st,
                       PyTo(enc.buffer, can_consume(mode, padding, enc.buffer)),
                       FALSE)} :
          LoopFed(can_consume(mode, padding, enc.buffer), r)

\* the loop ends and feed returns the result
LoopExit ==
    /\ pc = "loop"
    /\ ~(Len(enc.buffer) > 16) \/ can_consume(mode, padding, enc.buffer) = 0
    /\ encOut' = encOut \o last.out
    /\ pc' = "idle"
    /\ UNCHANGED <<mode, padding, plain, enc, encFed, dec, decFed, decOut, last>>

NextLoop ==
    \/ \E k \in ChunkLens(encFed, Len(plain) - encFed) : LoopEnter(k)
    \/ LoopTurn
    \/ LoopExit

\* a call that is running goes on running
SpecLoop == LoopInit /\ [][NextLoop]_vars /\ WF_vars(LoopTurn \/ LoopExit)

\* C18: every feed call ends: each turn of the loop of feed makes the buffer
\* strictly shorter, and the loop ends, without an error, with 16 bytes or
\* fewer in the buffer or with nothing that can be consumed.
C18_FeedTerminates ==
    /\ (pc = "loop") ~> (pc = "idle")
    /\ [][(pc = "loop" /\ pc' = "loop") => Len(enc'.buffer) < Len(enc.buffer)]_vars
    /\ [][(pc = "loop" /\ pc' = "idle")
            => /\ last'.err = ""
               /\ \/ Len(enc'.buffer) <= 16
                  \/ can_consume(mode, padding, enc'.buffer) = 0]_vars

C18_Witness ==
    /\ mode.kind = "CBC" /\ padding = PADDING_DEFAULT
    /\ pc = "idle" /\ last.who = "enc" /\ last.err = ""
    /\ Len(Fed) = 48 /\ Len(last.out) = 32
    /\ Len(enc.buffer) = 16 /\ Len(encOut) = 32

----------------------------------------------------------------------------
\* The CS1 transforms called on their own: a fresh block-mode object and the
\* bytes of plain as the tail.

\* the transform who has returned or raised r
TailCall(who, r) ==
    /\ last' = [who |-> who, arg |-> "bytes", err |-> r.err, out |-> r.out]
    /\ UNCHANGED <<mode, padding, plain, encFed, encOut, decFed, decOut, pc>>

CS1EncryptTail ==
    /\ BlockMode /\ last.who = "none"
    /\ \E r \in {_CS1_encrypt(mode, enc.st, plain)} :
          TailCall("_CS1_encrypt", r) /\ enc' = [enc EXCEPT !.st = r.st]
    /\ UNCHANGED dec

CS1DecryptTail ==
    /\ BlockMode /\ last.who = "none"
    /\ \E r \in {_CS1_decrypt(mode, dec.st, plain)} :
          TailCall("_CS1_decrypt", r) /\ dec' = [dec EXCEPT !.st = r.st]
    /\ UNCHANGED enc

NextTail == CS1EncryptTail \/ CS1DecryptTail

SpecTail == Init /\ [][NextTail]_vars

\* C19: on a tail of 16 or 32 bytes CS1 decrypt returns the mode's decrypt of
\* the whole tail and CS1 encrypt returns the mode's encrypt of each 16-byte
\* unit in order; either result is as long as the tail.
C19_CS1AlignedTail ==
    Len(plain) \in {16, 32}
    => /\ last.who = "_CS1_encrypt"
          => /\ last.err = "" /\ Len(last.out) = Len(plain)
             /\ last.out = TransformUnits(mode, ModeInit(mode), plain, <<>>, FALSE).out
       /\ last.who = "_CS1_decrypt"
          => /\ last.err = "" /\ Len(last.out) = Len(plain)
             /\ last.out = TransformUnits(mode, ModeInit(mode), plain, <<>>, TRUE).out

====
